---- MODULE Spec2Model ----
(***************************************************************************)
(* The Streamlit dashboard script manual-testing-sandbox/app.py as a state *)
(* machine.  One render pass is one top-to-bottom execution of the script; *)
(* every statement of the script is one action.  The host framework is the *)
(* environment: it keeps the widget values of the session and executes the *)
(* script again on every interaction with a widget the page shows.  Passes *)
(* of a session never overlap: an interaction that arrives while a pass is *)
(* running stops that pass before the next one starts (spec section 5).    *)
(*                                                                         *)
(* Text is a sequence of Unicode code points.  An optional value is the    *)
(* empty sequence (absent) or a one-element sequence (present).            *)
(***************************************************************************)
EXTENDS Integers, Sequences, FiniteSets, TLC

\* ------------------------------------------------------------------ bounds

\* User interactions (slider changes and button presses) in one behaviour.
MaxActions == 3

\* Calls of the random source in one behaviour: the initial pass, and at
\* most two passes for every interaction.
MaxDraws == 2 * MaxActions + 2

\* ------------------------------------------------------- program constants

\* st.sidebar.slider(label, 0, 100, 50)
min_value == 0
max_value == 100
default_value == 50
\* np.random.randn(number, 3)
n_columns == 3

columns == <<"A", "B", "C">>

\* 'Databricks Apps上のシンプルなStreamlitアプリ'
TitleText ==
    <<68, 97, 116, 97, 98, 114, 105, 99, 107, 115, 32, 65, 112, 112, 115,
      19978, 12398, 12471, 12531, 12503, 12523, 12394, 83, 116, 114, 101,
      97, 109, 108, 105, 116, 12450, 12503, 12522>>
\* 'パラメータ設定'
SidebarHeaderText == <<12497, 12521, 12513, 12540, 12479, 35373, 23450>>
\* '数値を選択してください'
SliderLabel ==
    <<25968, 20516, 12434, 36984, 25246, 12375, 12390, 12367, 12384, 12373,
      12356>>
\* 'サンプルデータ表示'
HeaderText ==
    <<12469, 12531, 12503, 12523, 12487, 12540, 12479, 34920, 31034>>
\* '選択された値: ' , the literal part of the f-string of line 14
EchoPrefix == <<36984, 25246, 12373, 12428, 12383, 20516, 58, 32>>
\* '{number}' , what line 14 would print without the f prefix
EchoPlaceholder == <<123, 110, 117, 109, 98, 101, 114, 125>>
\* 'データテーブル'
TableSubheader == <<12487, 12540, 12479, 12486, 12540, 12502, 12523>>
\* 'ラインチャート'
LineSubheader == <<12521, 12452, 12531, 12481, 12515, 12540, 12488>>
\* 'エリアチャート'
AreaSubheader == <<12456, 12522, 12450, 12481, 12515, 12540, 12488>>
\* '新しいデータを生成'
ButtonLabel ==
    <<26032, 12375, 12356, 12487, 12540, 12479, 12434, 29983, 25104>>

\* ------------------------------------------------------------ pure helpers

Absent == <<>>
Some(x) == <<x>>
IsSome(o) == Len(o) = 1
Get(o) == o[1]

\* str(n) of a Python int, as code points ('-' is 45, '0' is 48).
RECURSIVE Digits(_)
Digits(n) ==
    IF n < 0 THEN <<45>> \o Digits(-n)
    ELSE IF n < 10 THEN <<48 + n>>
    ELSE Digits(n \div 10) \o <<48 + (n % 10)>>

\* Mutant: the f prefix of the string literal is missing.
FormatEchoNoFString(n) == EchoPrefix \o EchoPlaceholder

\* f'選択された値: {number}'
FormatEcho(n) == EchoPrefix \o Digits(n)

\* Mutant: the call gives no default, and the widget starts at its minimum.
sliderDefaultMin(state, lo, hi, value) ==
    IF IsSome(state) THEN Get(state) ELSE lo

\* Mutant: the widget forgets the value of the session.
sliderAlwaysDefault(state, lo, hi, value) == value

\* st.sidebar.slider(label, min_value, max_value, value): the value the
\* session holds for the widget, and the default on its first registration.
slider(state, lo, hi, value) == IF IsSome(state) THEN Get(state) ELSE value

\* Mutant: an empty matrix is refused.
randnValidNonEmpty(d0, d1) == d0 > 0 /\ d1 > 0

\* np.random.randn raises ValueError on a negative dimension.
randnValid(d0, d1) == d0 >= 0 /\ d1 >= 0

\* Mutant: the generator is re-seeded before every call, so every call
\* returns the samples of the first.
randnReseeded(d0, d1, k) == [shape |-> <<d0, d1>>, draw |-> 1]

\* np.random.randn(d0, d1), the k-th call of the random source: a d0 x d1
\* matrix of samples.  A sample is known by the call that drew it and its
\* place in the matrix (see Sample); no sample is drawn twice.
randn(d0, d1, k) == [shape |-> <<d0, d1>>, draw |-> k]

Sample(arr, i, j) == <<arr.draw, i, j>>

\* pd.DataFrame(values, columns=cols) raises ValueError when the number of
\* column names differs from the width of the matrix.
DataFrameValid(arr, cols) == Len(cols) = arr.shape[2]

\* pd.DataFrame(values, columns=cols): RangeIndex 0 .. rows-1.
DataFrame(arr, cols) == [values |-> arr, columns |-> cols]

Rows(df) == df.values.shape[1]
Shape(df) == <<Rows(df), Len(df.columns)>>
\* The cells of a table: (row index, column name, sample).
Cells(df) ==
    { <<i, df.columns[j], Sample(df.values, i, j)>> :
        i \in 0 .. (Rows(df) - 1), j \in 1 .. Len(df.columns) }

\* ------------------------------------------------------- display elements

Title(body) == [type |-> "title", container |-> "main", body |-> body]
Header(container, body) ==
    [type |-> "header", container |-> container, body |-> body]
Subheader(body) == [type |-> "subheader", container |-> "main", body |-> body]
SliderElement(label, lo, hi, value) ==
    [type |-> "slider", container |-> "sidebar", label |-> label,
     min |-> lo, max |-> hi, value |-> value]
Write(body) == [type |-> "write", container |-> "main", body |-> body]
dataframe(df) == [type |-> "dataframe", container |-> "main", data |-> df]

\* Mutant: the line chart is given a draw of its own instead of `data`.
line_chartOwnDraw(df) ==
    [type |-> "line_chart", container |-> "main",
     data |-> DataFrame(randn(Rows(df), n_columns, df.values.draw + 1),
                        df.columns),
     x |-> "index", series |-> df.columns]

\* st.line_chart(data): x is the row index, one series per column.
line_chart(df) ==
    [type |-> "line_chart", container |-> "main", data |-> df,
     x |-> "index", series |-> df.columns]
\* st.area_chart(data): x is the row index, one series per column.
area_chart(df) ==
    [type |-> "area_chart", container |-> "main", data |-> df,
     x |-> "index", series |-> df.columns]
Button(label) == [type |-> "button", container |-> "main", label |-> label]

\* ------------------------------------------------------------- the script

\* Mutant: the button block is placed before the area chart.
ScriptButtonEarly ==
    <<"title", "sidebar_header", "slider", "header", "write", "data",
      "dataframe", "line_chart", "button", "area_chart">>

\* The statements of app.py in source order.
Script ==
    <<"title", "sidebar_header", "slider", "header", "write", "data",
      "dataframe", "line_chart", "area_chart", "button">>

Position(stmt) == CHOOSE i \in 1 .. Len(Script) : Script[i] = stmt
\* Where control goes after stmt: the next statement, or the end of the
\* script, where the runner waits for the next interaction.
After(stmt) ==
    IF Position(stmt) < Len(Script) THEN Script[Position(stmt) + 1]
    ELSE "idle"

\* Mutant: a forced rerun starts from a new session.
RerunFreshSession(state) == Absent

\* st.experimental_rerun(): the script is executed again with the widget
\* values the session holds.
RerunWidgetState(state) == state

\* Mutant: the click stays pending after the pass that read it.
TriggerSticky(trigger) == trigger

\* st.button: a click is reported only to the pass it caused; the host
\* clears it when it starts any other pass.
ResetTrigger(trigger) == FALSE

\* One whole pass of the script without the forced rerun of line 33, from
\* the widget state `state`, as the k-th call of the random source: the
\* page it displays and the widget state it leaves.
RenderPass(state, k) ==
    LET n == slider(state, min_value, max_value, default_value)
        df == DataFrame(randn(n, n_columns, k), columns)
    IN  [slider |-> Some(n),
         page |-> << Title(TitleText),
                     Header("sidebar", SidebarHeaderText),
                     SliderElement(SliderLabel, min_value, max_value, n),
                     Header("main", HeaderText),
                     Write(FormatEcho(n)),
                     Subheader(TableSubheader), dataframe(df),
                     Subheader(LineSubheader), line_chart(df),
                     Subheader(AreaSubheader), area_chart(df),
                     Button(ButtonLabel) >>]

\* ------------------------------------------------------------------ state

VARIABLES
    pc,              \* the statement the script runner is at, "idle" or "error"
    session_slider,  \* the slider value the session holds (absent at first)
    button_trigger,  \* a click of the button waits to be reported
    number,          \* the script's variable `number` (absent: unbound)
    data,            \* the script's variable `data` (absent: unbound)
    page,            \* the elements the current pass has displayed, in order
    draws,           \* calls of the random source so far
    actions,         \* user interactions so far
    lastAction,      \* "load", "slider" or "button": what caused the passes
    selected,        \* the value of the user's latest slider change
    started,         \* passes started since the latest interaction
    ended,           \* passes ended since the latest interaction
    passDraws,       \* calls of the random source in the current pass
    drawsAtAction,   \* `draws` when the latest interaction happened
    prev,            \* slider value and table on display at a button press
    refSlider,       \* the script without line 33: its slider value,
    refPage,         \*   the page of its latest pass,
    refDraws         \*   and its calls of the random source

sessionVars == <<session_slider, button_trigger>>
localVars == <<number, data>>
drawVars == <<draws, passDraws>>
passVars == <<started, ended>>
histVars == <<actions, lastAction, selected, drawsAtAction, prev>>
refVars == <<refSlider, refPage, refDraws>>
vars == <<pc, sessionVars, localVars, page, drawVars, passVars, histVars,
          refVars>>

Elements(pg, type) == { i \in 1 .. Len(pg) : pg[i].type = type }
Has(pg, type) == Elements(pg, type) # {}
TheElement(pg, type) == pg[CHOOSE i \in Elements(pg, type) : TRUE]

Init ==
    /\ pc = Script[1]
    /\ session_slider = Absent
    /\ button_trigger = FALSE
    /\ number = Absent
    /\ data = Absent
    /\ page = <<>>
    /\ draws = 0
    /\ actions = 0
    /\ lastAction = "load"
    /\ selected = Absent
    /\ started = 1
    /\ ended = 0
    /\ passDraws = 0
    /\ drawsAtAction = 0
    /\ prev = Absent
    /\ refSlider = RenderPass(Absent, 1).slider
    /\ refPage = RenderPass(Absent, 1).page
    /\ refDraws = 1

\* --------------------------------------------------- the host and the user

\* The host executes the script from its first statement.
StartPass ==
    /\ pc' = Script[1]
    /\ page' = <<>>
    /\ number' = Absent
    /\ data' = Absent
    /\ passDraws' = 0

\* The user moves the slider to v; a pass in flight is superseded.
SliderChange(v) ==
    /\ actions < MaxActions
    /\ Has(page, "slider")
    /\ v \in TheElement(page, "slider").min .. TheElement(page, "slider").max
    /\ v # TheElement(page, "slider").value
    /\ session_slider' = Some(v)
    /\ button_trigger' = ResetTrigger(button_trigger)
    /\ StartPass
    /\ started' = 1
    /\ ended' = 0
    /\ actions' = actions + 1
    /\ lastAction' = "slider"
    /\ selected' = Some(v)
    /\ drawsAtAction' = draws
    /\ prev' = Absent
    /\ refSlider' = RenderPass(Some(v), refDraws + 1).slider
    /\ refPage' = RenderPass(Some(v), refDraws + 1).page
    /\ refDraws' = refDraws + 1
    /\ UNCHANGED draws

\* The user clicks the button.
ButtonPress ==
    /\ actions < MaxActions
    /\ Has(page, "button")
    /\ button_trigger' = TRUE
    /\ UNCHANGED session_slider
    /\ StartPass
    /\ started' = 1
    /\ ended' = 0
    /\ actions' = actions + 1
    /\ lastAction' = "button"
    /\ UNCHANGED selected
    /\ drawsAtAction' = draws
    /\ prev' = IF Has(page, "dataframe")
               THEN Some([slider |-> session_slider,
                          data |-> TheElement(page, "dataframe").data])
               ELSE Absent
    /\ refSlider' = RenderPass(refSlider, refDraws + 1).slider
    /\ refPage' = RenderPass(refSlider, refDraws + 1).page
    /\ refDraws' = refDraws + 1
    /\ UNCHANGED draws

\* ------------------------------------------- the statements of the script

\* Statement stmt displays `elements` and control moves on; after the last
\* statement the pass has ended and the runner waits for an interaction.
Display(stmt, elements) ==
    /\ pc = stmt
    /\ page' = page \o elements
    /\ pc' = After(stmt)
    /\ started' = started
    /\ ended' = IF After(stmt) = "idle" THEN ended + 1 ELSE ended

\* An uncaught exception ends the pass.
Raise(stmt) ==
    /\ pc = stmt
    /\ pc' = "error"
    /\ UNCHANGED page
    /\ started' = started
    /\ ended' = ended + 1

\* line 6
st_title ==
    /\ Display("title", <<Title(TitleText)>>)
    /\ UNCHANGED <<sessionVars, localVars, drawVars, histVars, refVars>>

\* line 9
st_sidebar_header ==
    /\ Display("sidebar_header", <<Header("sidebar", SidebarHeaderText)>>)
    /\ UNCHANGED <<sessionVars, localVars, drawVars, histVars, refVars>>

\* line 10
st_sidebar_slider ==
    LET value == slider(session_slider, min_value, max_value, default_value)
    IN  /\ Display("slider",
                   <<SliderElement(SliderLabel, min_value, max_value, value)>>)
        /\ number' = Some(value)
        /\ session_slider' = Some(value)
        /\ UNCHANGED <<button_trigger, data, drawVars, histVars, refVars>>

\* line 13
st_header ==
    /\ Display("header", <<Header("main", HeaderText)>>)
    /\ UNCHANGED <<sessionVars, localVars, drawVars, histVars, refVars>>

\* line 14
st_write ==
    /\ IF IsSome(number)
       THEN Display("write", <<Write(FormatEcho(Get(number)))>>)
       ELSE Raise("write")
    /\ UNCHANGED <<sessionVars, localVars, drawVars, histVars, refVars>>

\* lines 17-20 (the guard on draws only keeps the counter bounded)
make_data ==
    /\ pc = "data"
    /\ draws < MaxDraws
    /\ IF /\ IsSome(number)
          /\ randnValid(Get(number), n_columns)
          /\ DataFrameValid(randn(Get(number), n_columns, draws + 1), columns)
       THEN /\ Display("data", <<>>)
            /\ data' = Some(DataFrame(randn(Get(number), n_columns, draws + 1),
                                      columns))
            /\ draws' = draws + 1
            /\ passDraws' = passDraws + 1
       ELSE /\ Raise("data")
            /\ UNCHANGED <<data, drawVars>>
    /\ UNCHANGED <<sessionVars, number, histVars, refVars>>

\* lines 22-23
st_dataframe ==
    /\ IF IsSome(data)
       THEN Display("dataframe",
                    <<Subheader(TableSubheader), dataframe(Get(data))>>)
       ELSE Raise("dataframe")
    /\ UNCHANGED <<sessionVars, localVars, drawVars, histVars, refVars>>

\* lines 25-26
st_line_chart ==
    /\ IF IsSome(data)
       THEN Display("line_chart",
                    <<Subheader(LineSubheader), line_chart(Get(data))>>)
       ELSE Raise("line_chart")
    /\ UNCHANGED <<sessionVars, localVars, drawVars, histVars, refVars>>

\* lines 28-29
st_area_chart ==
    /\ IF IsSome(data)
       THEN Display("area_chart",
                    <<Subheader(AreaSubheader), area_chart(Get(data))>>)
       ELSE Raise("area_chart")
    /\ UNCHANGED <<sessionVars, localVars, drawVars, histVars, refVars>>

\* line 32, no click waiting: st.button displays the button and returns
\* False.
st_button_false ==
    /\ ~button_trigger
    /\ Display("button", <<Button(ButtonLabel)>>)
    /\ UNCHANGED <<sessionVars, localVars, drawVars, histVars, refVars>>

\* Mutant: line 33 is missing, the pass that reports the click just ends.
st_button_no_rerun ==
    /\ button_trigger
    /\ Display("button", <<Button(ButtonLabel)>>)
    /\ button_trigger' = ResetTrigger(button_trigger)
    /\ UNCHANGED <<session_slider, localVars, drawVars, histVars, refVars>>

\* lines 32-33, a click waiting: st.button displays the button and returns
\* True, and st.experimental_rerun() stops this pass and has the host start
\* the next one at once (the guard on started only keeps the counter bounded).
st_button_rerun ==
    /\ pc = "button"
    /\ button_trigger
    /\ started < MaxDraws
    /\ button_trigger' = ResetTrigger(button_trigger)
    /\ session_slider' = RerunWidgetState(session_slider)
    /\ StartPass
    /\ started' = started + 1
    /\ ended' = ended + 1
    /\ UNCHANGED <<draws, histVars, refVars>>

ScriptStep ==
    \/ st_title
    \/ st_sidebar_header
    \/ st_sidebar_slider
    \/ st_header
    \/ st_write
    \/ make_data
    \/ st_dataframe
    \/ st_line_chart
    \/ st_area_chart
    \/ st_button_false
    \/ st_button_rerun

UserAction ==
    \/ \E v \in min_value .. max_value : SliderChange(v)
    \/ ButtonPress

Next == ScriptStep \/ UserAction

Spec == Init /\ [][Next]_vars

\* The host runs a started pass to its end.
FairSpec == Spec /\ WF_vars(ScriptStep)

\* ------------------------------------------------- what a page shows

Table(pg) == TheElement(pg, "dataframe").data
EchoText(pg) == TheElement(pg, "write").body
Views == {"dataframe", "line_chart", "area_chart"}

IsDigit(c) == c \in 48 .. 57
\* The numbers a text contains: the value of every maximal run of digits.
RECURSIVE ParseRuns(_, _, _)
ParseRuns(text, i, cur) ==
    IF i > Len(text) THEN cur
    ELSE IF IsDigit(text[i])
         THEN ParseRuns(text, i + 1,
                        Some((IF IsSome(cur) THEN 10 * Get(cur) ELSE 0)
                             + (text[i] - 48)))
         ELSE cur \o ParseRuns(text, i + 1, Absent)
NumbersIn(text) == ParseRuns(text, 1, Absent)

\* The steps of a pass that display something, without the subheaders.
RECURSIVE Kinds(_)
Kinds(pg) ==
    IF pg = <<>> THEN <<>>
    ELSE (IF Head(pg).type = "subheader" THEN <<>>
          ELSE <<<<Head(pg).container, Head(pg).type>>>>) \o Kinds(Tail(pg))
IsPrefix(a, b) == Len(a) <= Len(b) /\ a = SubSeq(b, 1, Len(a))

\* The slider value the user selected last; the widget's default before
\* the first selection.
MostRecentlySelected ==
    IF IsSome(selected) THEN Get(selected) ELSE default_value

Idle == pc = "idle"
Rerendering == pc # "idle"

\* ------------------------------------------------------------------ claims

\* C1: whenever a render pass has completed, the table on the page has
\* exactly N rows, N the most recently selected slider value (in 0..100),
\* and exactly the 3 columns "A", "B", "C" in that order.
C1_TableShape ==
    Idle =>
        /\ Has(page, "dataframe")
        /\ MostRecentlySelected \in 0 .. 100
        /\ Rows(Table(page)) = MostRecentlySelected
        /\ Table(page).columns = <<"A", "B", "C">>
        /\ Table(page).values.shape = <<MostRecentlySelected, 3>>

C1_Witness ==
    /\ Idle
    /\ actions >= 2
    /\ lastAction = "slider"
    /\ selected = Some(100)
    /\ Rows(Table(page)) = 100

\* C2: after a button press, once the passes it caused are complete, the
\* slider value is the one held at the press, the table has the shape it
\* had at the press (N rows, 3 columns), it comes from a draw made after
\* the press, and it shares no cell with the table shown at the press.
C2_Regenerate ==
    (Idle /\ lastAction = "button") =>
        /\ IsSome(prev)
        /\ session_slider = Get(prev).slider
        /\ Shape(Table(page)) = <<Get(Get(prev).slider), 3>>
        /\ Shape(Table(page)) = Shape(Get(prev).data)
        /\ Table(page).values.draw > drawsAtAction
        /\ Cells(Table(page)) \cap Cells(Get(prev).data) = {}

C2_Witness ==
    /\ Idle
    /\ lastAction = "button"
    /\ session_slider = Some(100)
    /\ Cardinality(Cells(Table(page))) = 300
    /\ Table(page) # Get(prev).data

\* C3: the echo text on the page contains exactly one number, the value of
\* `number` in the pass that wrote it, and in a completed pass that number
\* is the row count of the table of the same page.
C3_Echo ==
    /\ Has(page, "write") =>
           /\ IsSome(number)
           /\ NumbersIn(EchoText(page)) = <<Get(number)>>
    /\ Idle => NumbersIn(EchoText(page)) = <<Rows(Table(page))>>

C3_Witness ==
    /\ Idle
    /\ actions >= 1
    /\ Rows(Table(page)) = 37
    /\ EchoText(page) = EchoPrefix \o <<51, 55>>

\* C4: with no user interaction, the first pass reads slider value 50 and
\* renders a table with 50 rows.
C4_Default ==
    lastAction = "load" =>
        /\ IsSome(number) => Get(number) = 50
        /\ Has(page, "slider") => TheElement(page, "slider").value = 50
        /\ Idle => Has(page, "dataframe") /\ Rows(Table(page)) = 50

C4_Witness ==
    /\ Idle
    /\ actions = 0
    /\ number = Some(50)
    /\ Rows(Table(page)) = 50

\* C5: with slider value 0 the pass never reaches the error state, and when
\* it has completed, the table, the line chart and the area chart are all on
\* the page with zero data rows and the button is the last element.
C5_ZeroRows ==
    session_slider = Some(0) =>
        /\ pc # "error"
        /\ Idle =>
            /\ \A v \in Views :
                   /\ Has(page, v)
                   /\ Rows(TheElement(page, v).data) = 0
                   /\ Cells(TheElement(page, v).data) = {}
            /\ page[Len(page)].type = "button"

C5_Witness ==
    /\ Idle
    /\ number = Some(0)
    /\ Has(page, "area_chart")
    /\ Rows(TheElement(page, "area_chart").data) = 0
    /\ Has(page, "button")

\* The page of a completed pass, by container and kind.
FullPage ==
    << <<"main", "title">>, <<"sidebar", "header">>, <<"sidebar", "slider">>,
       <<"main", "header">>, <<"main", "write">>, <<"main", "dataframe">>,
       <<"main", "line_chart">>, <<"main", "area_chart">>,
       <<"main", "button">> >>

\* Passes of a session do not overlap: every pass started since the latest
\* interaction has ended, except the one that is running.
NoOverlap == started = ended + (IF pc \in {"idle", "error"} THEN 0 ELSE 1)

\* C6 as stated: every user action (and the initial load) causes exactly one
\* complete pass, and passes do not overlap.
C6_OnePassPerAction ==
    /\ NoOverlap
    /\ started <= 1
    /\ Idle => started = 1 /\ ended = 1 /\ Kinds(page) = FullPage

\* C6 as amended: a slider change (and the initial load) causes exactly one
\* pass and a button press exactly two, the pass that reports the click and
\* the pass it forces; passes do not overlap, and the pass that reaches Idle
\* is complete.
C6_PassesPerAction ==
    /\ NoOverlap
    /\ started <= (IF lastAction = "button" THEN 2 ELSE 1)
    /\ Idle =>
        /\ started = (IF lastAction = "button" THEN 2 ELSE 1)
        /\ ended = started
        /\ Kinds(page) = FullPage

C6_Witness ==
    /\ Idle
    /\ lastAction = "button"
    /\ started = 2
    /\ ended = 2
    /\ actions >= 2

\* C7: the renderer is Idle or Re-rendering; every user interaction moves it
\* to Re-rendering and it always returns to Idle; a button press causes at
\* most two passes, the forced one seeing no click; and from Idle a further
\* interaction is always possible (within the bound on interactions).
C7_IdleRerendering ==
    /\ [](Idle \/ \E i \in 1 .. Len(Script) : pc = Script[i])
    /\ [](Idle <=> started = ended)
    /\ [][actions' # actions => Rerendering']_vars
    /\ Rerendering ~> Idle
    /\ [](started <= 2)
    /\ [](started = 2 => ~button_trigger)
    /\ []((Idle /\ actions < MaxActions) =>
            (/\ ENABLED ButtonPress
             /\ ENABLED (\E v \in min_value .. max_value : SliderChange(v))))

C7_Witness ==
    /\ Idle
    /\ lastAction = "button"
    /\ started = 2
    /\ ~button_trigger
    /\ actions = MaxActions

\* C8: a pass displays title, sidebar header, slider, main header, echo
\* text, data grid, line chart, area chart and button in this order; the
\* table is generated only after the slider has been read, no view is on the
\* page before the table is generated, and a forced re-invocation happens
\* only when all three views of the pass are on the page.
C8_Order ==
    /\ [](IsPrefix(Kinds(page), FullPage))
    /\ [](Idle => Kinds(page) = FullPage)
    /\ [](IsSome(data) => IsSome(number) /\ Has(page, "slider")
                           /\ Has(page, "write"))
    /\ [](\A v \in Views : Has(page, v) => IsSome(data))
    /\ [][(started' = started + 1 /\ actions' = actions) =>
             \A v \in Views : Has(page, v)]_vars

C8_Witness ==
    /\ started = 2
    /\ pc = "dataframe"
    /\ IsSome(data)
    /\ ~Has(page, "dataframe")

\* C9: a pass draws the table at most once, exactly once when it has
\* completed, and the data grid, the line chart and the area chart on the
\* page all show the table held in `data`: same rows, same cells, one series
\* per column "A", "B", "C".
C9_SameData ==
    /\ passDraws <= 1
    /\ \A v \in Views : Has(page, v) =>
           /\ IsSome(data)
           /\ TheElement(page, v).data = Get(data)
           /\ Cells(TheElement(page, v).data) = Cells(Get(data))
    /\ \A v \in {"line_chart", "area_chart"} : Has(page, v) =>
           TheElement(page, v).series = <<"A", "B", "C">>
    /\ Idle => passDraws = 1 /\ \A v \in Views : Has(page, v)

C9_Witness ==
    /\ Idle
    /\ lastAction = "button"
    /\ Rows(Get(data)) = 100
    /\ TheElement(page, "line_chart").data = TheElement(page, "area_chart").data
    /\ TheElement(page, "dataframe").data = Get(data)

\* What the user observes of a page.
Observed(pg, state) ==
    [slider |-> state,
     shown |-> TheElement(pg, "slider").value,
     echo |-> EchoText(pg),
     shape |-> Shape(Table(pg)),
     kinds |-> Kinds(pg)]

\* C10: whenever the script is Idle, it shows the slider value, the echo text
\* and the table shape that the script without line 33 shows after the same
\* interactions, and both tables were drawn after the latest interaction.
C10_RerunInformational ==
    Idle =>
        /\ Observed(page, session_slider) = Observed(refPage, refSlider)
        /\ Table(page).values.draw > drawsAtAction
        /\ Table(refPage).values.draw = refDraws
        /\ refDraws = actions + 1

C10_Witness ==
    /\ Idle
    /\ lastAction = "button"
    /\ session_slider = Some(0)
    /\ draws > refDraws
    /\ Observed(page, session_slider) = Observed(refPage, refSlider)
====
